---- MODULE Spec2Model ----
(***************************************************************************)
(* PhiFlow backend layer (phi/math/backend/_backend.py): the scoped        *)
(* backend stack, dtype promotion, the default elementwise operators, the  *)
(* abstract operation set and the linear-solve contract.                   *)
(***************************************************************************)
EXTENDS Integers, Sequences, FiniteSets, TLC

VARIABLES
    _DEFAULT,   \* the process-wide list of active backends (top = last element)
    frames,     \* per task: the `with backend:` blocks it is inside, innermost last
    exc,        \* per task: an exception is propagating out of the scope bodies
    exited,     \* the last completed __exit__: depth before the matching __enter__ and after
    precision,  \* the process-wide floating point precision in bits (get_precision())
    dtypes,     \* the operands of the last combine_types call
    result,     \* what that call returned or raised
    binary,     \* the last call of a default elementwise method: operands and outcome
    backend,    \* a constructed Backend object: its _name and the operations its class overrides
    outcome,    \* the last call of an abstract operation on it: what it raised or returned
    cg,         \* an engine's conjugate_gradient call: its arguments, loop state and result
    serialized, \* the callers serialize each task's enter..exit span against the others'
    field,      \* the field handed to write
    archive,    \* what write stored in the file, or the error it raised
    loaded,     \* what read made of the file, or the error it raised
    tensor,     \* the shape of the tensor handed to unstack
    unstacked   \* the arguments and the outcome of the unstack call

scopeVars == <<_DEFAULT, frames, exc, exited>>

typeVars == <<dtypes, result>>

abstractVars == <<backend, outcome>>

ioVars == <<field, archive, loaded>>

unstackVars == <<tensor, unstacked>>

otherVars == <<serialized, ioVars, unstackVars>>

vars == <<_DEFAULT, frames, exc, exited, precision, dtypes, result, binary, backend, outcome, cg,
          serialized, field, archive, loaded, tensor, unstacked>>

(***************************************************************************)
(* Bounds and finite input sets                                            *)
(***************************************************************************)
\* deepest nesting of `with` blocks explored per task
MaxNest == 3

\* names of the Backend objects that scopes are entered with
BackendNames == {"NumPy", "TF", "Torch"}

\* the backend registered at startup
BUILTIN == "NumPy"

\* the tasks that may enter scopes; NestedTask is the one of the single-task runs
Tasks == {"main", "worker"}

NestedTask == "main"

\* deepest nesting of scopes per task when several tasks share the stack
MaxTaskNest == 2

\* largest max_iterations handed to conjugate_gradient
MaxIterations == 2

\* largest residual norm, norm of y and absolute tolerance, in units of the tolerance scale
MaxNorm == 2

\* most dimensions of a centered field's values
MaxRank == 3

\* largest size of a dimension, and largest cell count of a staggered grid along an axis
MaxSize == 2

\* longest operand list handed to combine_types
MaxArgs == 3

\* values of the precision setting
Precisions == {16, 32, 64}

\* the kinds combine_types has a rule for, and one it has none for
NumericKinds == {"bool", "int", "float", "complex"}

OtherKinds == {"object"}

\* bit widths explored per kind (a bool is one byte wide)
WidthsOf(kind) ==
    CASE kind = "bool" -> {8}
      [] kind = "int" -> {8, 16, 32}
      [] kind = "float" -> {16, 32, 64}
      [] kind = "complex" -> {64, 128}
      [] OTHER -> {8}

(***************************************************************************)
(* Scoped backend selection: Backend.__enter__ / Backend.__exit__          *)
(***************************************************************************)
Top(s) == s[Len(s)]

Pop(s) == SubSeq(s, 1, Len(s) - 1)

NoExit == [task |-> "", level |-> 0, pre |-> 0, post |-> 0, raised |-> FALSE]

\* variant: the backend is inserted below the current entries (insert(0, self))
EnterInsertsAtBottom(t, self) ==
    /\ ~exc[t]
    /\ Len(frames[t]) < MaxNest
    /\ _DEFAULT' = <<self>> \o _DEFAULT
    /\ frames' = [frames EXCEPT ![t] = Append(@, [backend |-> self, depth |-> Len(_DEFAULT)])]
    /\ UNCHANGED <<exc, exited, precision, typeVars, binary, abstractVars, cg, otherVars>>

\* _DEFAULT.append(self); the with statement then runs the body
__enter__(t, self) ==
    /\ ~exc[t]
    /\ Len(frames[t]) < MaxNest
    /\ _DEFAULT' = Append(_DEFAULT, self)
    /\ frames' = [frames EXCEPT ![t] = Append(@, [backend |-> self, depth |-> Len(_DEFAULT)])]
    /\ UNCHANGED <<exc, exited, precision, typeVars, binary, abstractVars, cg, otherVars>>

\* variant: the pop is skipped when the body raised (if exc_type is None: pop)
ExitPopsOnlyOnSuccess(t) ==
    /\ frames[t] # <<>>
    /\ _DEFAULT # <<>>
    /\ _DEFAULT' = IF exc[t] THEN _DEFAULT ELSE Pop(_DEFAULT)
    /\ frames' = [frames EXCEPT ![t] = Pop(@)]
    /\ exited' = [task |-> t, level |-> Len(frames[t]), pre |-> Top(frames[t]).depth,
                  post |-> Len(_DEFAULT'), raised |-> exc[t]]
    /\ UNCHANGED <<exc, precision, typeVars, binary, abstractVars, cg, otherVars>>

\* variant: the oldest entry is removed instead of the newest (pop(0))
ExitPopsBottom(t) ==
    /\ frames[t] # <<>>
    /\ _DEFAULT # <<>>
    /\ _DEFAULT' = SubSeq(_DEFAULT, 2, Len(_DEFAULT))
    /\ frames' = [frames EXCEPT ![t] = Pop(@)]
    /\ exited' = [task |-> t, level |-> Len(frames[t]), pre |-> Top(frames[t]).depth,
                  post |-> Len(_DEFAULT'), raised |-> exc[t]]
    /\ UNCHANGED <<exc, precision, typeVars, binary, abstractVars, cg, otherVars>>

\* _DEFAULT.pop(-1), whatever exc_type is; returns None, so a propagating
\* exception keeps propagating to the enclosing block
__exit__(t) ==
    /\ frames[t] # <<>>
    /\ _DEFAULT # <<>>
    /\ _DEFAULT' = Pop(_DEFAULT)
    /\ frames' = [frames EXCEPT ![t] = Pop(@)]
    /\ exited' = [task |-> t, level |-> Len(frames[t]), pre |-> Top(frames[t]).depth,
                  post |-> Len(_DEFAULT'), raised |-> exc[t]]
    /\ UNCHANGED <<exc, precision, typeVars, binary, abstractVars, cg, otherVars>>

\* the body of the innermost scope (or code outside any scope) raises
Raise(t) ==
    /\ ~exc[t]
    /\ exc' = [exc EXCEPT ![t] = TRUE]
    /\ UNCHANGED <<_DEFAULT, frames, exited, precision, typeVars, binary, abstractVars, cg, otherVars>>

\* a try/except around the current position handles the exception
Catch(t) ==
    /\ exc[t]
    /\ exc' = [exc EXCEPT ![t] = FALSE]
    /\ UNCHANGED <<_DEFAULT, frames, exited, precision, typeVars, binary, abstractVars, cg, otherVars>>

\* the Backend object each task enters its own scopes with
TaskBackend(t) == IF t = NestedTask THEN "TF" ELSE "Torch"

\* serializing callers let a task open a scope only while no other task is inside one
MayEnter(t) == serialized => \A u \in Tasks \ {t} : frames[u] = <<>>

\* a task enters a scope of its own backend
TaskEnter(t) ==
    /\ Len(frames[t]) < MaxTaskNest
    /\ MayEnter(t)
    /\ __enter__(t, TaskBackend(t))

(***************************************************************************)
(* DType and type promotion: Backend.combine_types                         *)
(***************************************************************************)
DType(kind, bits) == [kind |-> kind, bits |-> bits]

DTypes == UNION {{DType(k, b) : b \in WidthsOf(k)} : k \in NumericKinds \cup OtherKinds}

DTypeLists == UNION {[1..n -> DTypes] : n \in 0..MaxArgs}

NoValue == DType("none", 0)

\* the outcome of a call: a returned value, or the exception that left it
Return(v) == [raised |-> "", value |-> v]

RaiseError(type) == [raised |-> type, value |-> NoValue]

NotCalled == [raised |-> "not called", value |-> NoValue]

Max(a, b) == IF a >= b THEN a ELSE b

\* DType(float, self.precision)
float_type == DType("float", precision)

\* DType(complex, max(64, self.precision))
complex_type == DType("complex", Max(64, precision))

AllKindsIn(ds, kinds) == \A i \in 1..Len(ds) : ds[i].kind \in kinds

\* max(dtypes, key=lambda dt: dt.bits): the first operand of the largest width
largest(ds) ==
    LET first == CHOOSE i \in 1..Len(ds) :
                     /\ \A j \in 1..Len(ds) : ds[j].bits <= ds[i].bits
                     /\ \A j \in 1..(i - 1) : ds[j].bits < ds[i].bits
    IN ds[first]

\* variant: the real branch promotes to the widest operand instead of float_type
CombineWidensToOperand(ds) ==
    IF AllKindsIn(ds, {"bool"})
    THEN IF ds = <<>> THEN RaiseError("IndexError") ELSE Return(ds[1])
    ELSE IF AllKindsIn(ds, {"bool", "int"}) THEN Return(largest(ds))
    ELSE IF AllKindsIn(ds, {"float", "int", "bool"}) THEN Return(DType("float", largest(ds).bits))
    ELSE IF AllKindsIn(ds, {"complex", "float", "int", "bool"}) THEN Return(DType("complex", largest(ds).bits))
    ELSE RaiseError("ValueError")

\* variant: the fall-through returns complex_type instead of raising
CombineCoercesUnknownKind(ds) ==
    IF AllKindsIn(ds, {"bool"})
    THEN IF ds = <<>> THEN RaiseError("IndexError") ELSE Return(ds[1])
    ELSE IF AllKindsIn(ds, {"bool", "int"}) THEN Return(largest(ds))
    ELSE IF AllKindsIn(ds, {"float", "int", "bool"}) THEN Return(float_type)
    ELSE Return(complex_type)

combine_types(ds) ==
    IF AllKindsIn(ds, {"bool"})
    THEN IF ds = <<>> THEN RaiseError("IndexError") ELSE Return(ds[1])
    ELSE IF AllKindsIn(ds, {"bool", "int"}) THEN Return(largest(ds))
    ELSE IF AllKindsIn(ds, {"float", "int", "bool"}) THEN Return(float_type)
    ELSE IF AllKindsIn(ds, {"complex", "float", "int", "bool"}) THEN Return(complex_type)
    ELSE RaiseError("ValueError")

\* a caller applies combine_types to one list of dtypes
CallCombineTypes ==
    /\ result = NotCalled
    /\ \E ds \in DTypeLists :
           /\ dtypes' = ds
           /\ result' = combine_types(ds)
    /\ UNCHANGED <<scopeVars, precision, binary, abstractVars, cg, otherVars>>

(***************************************************************************)
(* Default elementwise operators: Backend.auto_cast, add ... mod           *)
(***************************************************************************)
\* a native tensor: its storage and the dtype the engine reports for it
Tensor(data, dt) == [data |-> data, dtype |-> dt]

NoTensor == Tensor("", NoValue)

\* the engine's dtype query
dtype(t) == t.dtype

\* the engine's conversion: the same data held in the requested dtype
cast(t, dt) == [t EXCEPT !.dtype = dt]

\* dtypes of the operands, their combination, every operand cast to it
auto_cast(tensors) ==
    LET dts == [i \in 1..Len(tensors) |-> dtype(tensors[i])]
        result_type == combine_types(dts)
    IN IF result_type.raised # ""
       THEN [raised |-> result_type.raised, value |-> <<>>]
       ELSE [raised |-> "", value |-> [i \in 1..Len(tensors) |-> cast(tensors[i], result_type.value)]]

\* the engine's operator applied to two native operands
Native(op, lhs, rhs) == [op |-> op, lhs |-> lhs, rhs |-> rhs]

NoNative == Native("", NoTensor, NoTensor)

\* a, b = self.auto_cast(a, b); return a <op> b
CastThenApply(op, a, b) ==
    LET casted == auto_cast(<<a, b>>)
    IN IF casted.raised # ""
       THEN [raised |-> casted.raised, native |-> NoNative]
       ELSE [raised |-> "", native |-> Native(op, casted.value[1], casted.value[2])]

add(a, b) == CastThenApply("+", a, b)

sub(a, b) == CastThenApply("-", a, b)

mul(a, b) == CastThenApply("*", a, b)

div(numerator, denominator) == CastThenApply("/", numerator, denominator)

pow(base, exp) == CastThenApply("**", base, exp)

\* variant: the operands reach the engine's operator without auto_cast
ModWithoutAutoCast(dividend, divisor) ==
    [raised |-> "", native |-> Native("%", dividend, divisor)]

mod(dividend, divisor) == CastThenApply("%", dividend, divisor)

BinaryMethods == {"add", "sub", "mul", "div", "pow", "mod"}

\* attribute lookup of the method on the backend
Invoke(method, a, b) ==
    CASE method = "add" -> add(a, b)
      [] method = "sub" -> sub(a, b)
      [] method = "mul" -> mul(a, b)
      [] method = "div" -> div(a, b)
      [] method = "pow" -> pow(a, b)
      [] method = "mod" -> mod(a, b)

NotInvoked == [method |-> "", a |-> NoTensor, b |-> NoTensor,
               out |-> [raised |-> "not called", native |-> NoNative]]

\* a caller applies one default elementwise method to two native tensors
CallBinary ==
    /\ binary = NotInvoked
    /\ \E method \in BinaryMethods, da \in DTypes, db \in DTypes :
           LET a == Tensor("x", da)
               b == Tensor("y", db)
           IN binary' = [method |-> method, a |-> a, b |-> b, out |-> Invoke(method, a, b)]
    /\ UNCHANGED <<scopeVars, precision, typeVars, abstractVars, cg, otherVars>>

(***************************************************************************)
(* Abstract math functions of Backend                                      *)
(***************************************************************************)
\* raise NotImplementedError()
RaisesWithoutArgs ==
    {"is_tensor", "as_tensor", "is_available", "numpy", "copy", "transpose", "equal"}

\* raise NotImplementedError(self)
RaisesWithSelf ==
    {"random_uniform", "random_normal", "stack", "concat", "pad", "reshape", "sum", "prod",
     "divide_no_nan", "where", "nonzero", "mean", "py_func", "range", "zeros", "zeros_like",
     "ones", "ones_like", "meshgrid", "dot", "matmul", "einsum", "while_loop", "abs", "sign",
     "round", "ceil", "floor", "max", "min", "maximum", "minimum", "clip",
     "with_custom_gradient", "sqrt", "exp", "conv", "expand_dims", "shape", "staticshape",
     "to_float", "to_int", "to_complex", "gather", "gather_nd", "std", "boolean_mask",
     "isfinite", "scatter", "any", "all", "fft", "ifft", "imag", "real", "cast", "sin", "cos",
     "dtype", "tile", "sparse_tensor", "coordinates", "conjugate_gradient"}

\* return NotImplemented
ReturnsNotImplemented == {"resample"}

AbstractOperations == RaisesWithoutArgs \cup RaisesWithSelf \cup ReturnsNotImplemented

\* operation sets overridden by the backend classes explored
Overrides ==
    {{}, {"stack", "sum"}, {"resample", "dtype", "cast"}, {"conjugate_gradient", "is_tensor"}}

NoBackend == [_name |-> "", overrides |-> {}]

NoOutcome == [op |-> "", raised |-> "", args |-> <<>>, value |-> ""]

\* self._name = name
__init__(name, overrides) == [_name |-> name, overrides |-> overrides]

\* the name property, which __str__ and __repr__ return
__str__(self) == self._name

\* variant: the base pad returns NotImplemented, as its docstring words it, instead of raising
PadReturnsNotImplemented(self, op) ==
    IF op \in RaisesWithoutArgs
    THEN [op |-> op, raised |-> "NotImplementedError", args |-> <<>>, value |-> ""]
    ELSE IF op \in RaisesWithSelf \ {"pad"}
    THEN [op |-> op, raised |-> "NotImplementedError", args |-> <<__str__(self)>>, value |-> ""]
    ELSE [op |-> op, raised |-> "", args |-> <<>>, value |-> "NotImplemented"]

\* the body Backend itself gives the operation; an exception shows its
\* arguments as str() prints them
BaseMethod(self, op) ==
    IF op \in RaisesWithoutArgs
    THEN [op |-> op, raised |-> "NotImplementedError", args |-> <<>>, value |-> ""]
    ELSE IF op \in RaisesWithSelf
    THEN [op |-> op, raised |-> "NotImplementedError", args |-> <<__str__(self)>>, value |-> ""]
    ELSE [op |-> op, raised |-> "", args |-> <<>>, value |-> "NotImplemented"]

\* method resolution: the subclass's override if it has one, else Backend's body
CallMethod(self, op) ==
    IF op \in self.overrides
    THEN [op |-> op, raised |-> "", args |-> <<>>, value |-> "engine result"]
    ELSE BaseMethod(self, op)

\* a backend class overriding some operations is instantiated
Construct ==
    /\ \E name \in BackendNames, overrides \in Overrides :
           backend' = __init__(name, overrides)
    /\ outcome' = NoOutcome
    /\ UNCHANGED <<scopeVars, precision, typeVars, binary, cg, otherVars>>

\* a caller invokes one abstract operation on the constructed backend
CallAbstract ==
    /\ backend # NoBackend
    /\ \E op \in AbstractOperations : outcome' = CallMethod(backend, op)
    /\ UNCHANGED <<scopeVars, precision, typeVars, binary, backend, cg, otherVars>>

(***************************************************************************)
(* Linear solve: conjugate_gradient as an engine implements it             *)
(***************************************************************************)
\* max(relative_tolerance * norm(y), absolute_tolerance)
Tolerance(relative_tolerance, norm_y, absolute_tolerance) ==
    Max(relative_tolerance * norm_y, absolute_tolerance)

CGIdle == [pc |-> "idle", residual |-> 0, tolerance |-> 0, max_iterations |-> 0,
           iterations |-> 0, converged |-> FALSE]

\* the call: the residual of x0 is computed, no iteration has run
cg_call ==
    /\ cg.pc = "idle"
    /\ \E residual0 \in 0..MaxNorm, norm_y \in 0..MaxNorm,
          relative_tolerance \in {0, 1}, absolute_tolerance \in 0..MaxNorm,
          max_iterations \in 0..MaxIterations :
           cg' = [pc |-> "loop", residual |-> residual0,
                  tolerance |-> Tolerance(relative_tolerance, norm_y, absolute_tolerance),
                  max_iterations |-> max_iterations, iterations |-> 0, converged |-> FALSE]
    /\ UNCHANGED <<scopeVars, precision, typeVars, binary, abstractVars, otherVars>>

\* variant: the residual is tested before the iteration limit
LimitTestedAfterResidual == cg.iterations >= cg.max_iterations /\ cg.residual > cg.tolerance

\* max_iterations reached
LimitReached == cg.iterations >= cg.max_iterations

\* residual norm within the tolerance
WithinTolerance == cg.residual <= cg.tolerance

\* one iteration: a new iterate with a new residual, handed to the callback
cg_iterate ==
    /\ cg.pc = "loop"
    /\ ~LimitReached
    /\ ~WithinTolerance
    /\ \E residual \in 0..MaxNorm :
           cg' = [cg EXCEPT !.residual = residual, !.iterations = @ + 1]
    /\ UNCHANGED <<scopeVars, precision, typeVars, binary, abstractVars, otherVars>>

\* the loop stops on the iteration limit: non-convergence is returned, not raised
cg_return_not_converged ==
    /\ cg.pc = "loop"
    /\ LimitReached
    /\ cg' = [cg EXCEPT !.pc = "returned", !.converged = FALSE]
    /\ UNCHANGED <<scopeVars, precision, typeVars, binary, abstractVars, otherVars>>

\* the loop stops on the convergence criterion
cg_return_converged ==
    /\ cg.pc = "loop"
    /\ ~LimitReached
    /\ WithinTolerance
    /\ cg' = [cg EXCEPT !.pc = "returned", !.converged = TRUE]
    /\ UNCHANGED <<scopeVars, precision, typeVars, binary, abstractVars, otherVars>>

(***************************************************************************)
(* Field serialization: phi/field/_field_io.py                             *)
(***************************************************************************)
DimNames == {"batch", "x", "y", "vector"}

\* the type every dimension name is given
DimType(name) ==
    CASE name = "batch" -> "batch"
      [] name \in {"x", "y"} -> "spatial"
      [] OTHER -> "channel"

\* a dimension's size: one number when all stacked components agree, else one per component
Uniform(n) == <<n>>

SeqMax(q) == CHOOSE v \in {q[i] : i \in 1..Len(q)} : \A i \in 1..Len(q) : q[i] <= v

\* math.Shape(sizes, names, types): one name and one type per size
Shape(sizes, names, types) ==
    IF Len(sizes) = Len(names) /\ Len(sizes) = Len(types)
    THEN [names |-> names, types |-> types, sizes |-> sizes, valid |-> TRUE]
    ELSE [names |-> <<>>, types |-> <<>>, sizes |-> <<>>, valid |-> FALSE]

EmptyShape == Shape(<<>>, <<>>, <<>>)

\* Tensor.numpy(): the native array, one axis per dimension in the Shape's order
numpy(values) == [shape |-> [i \in 1..Len(values.sizes) |-> SeqMax(values.sizes[i])]]

NoArray == [shape |-> <<>>]

\* NativeTensor(data, shape): the array under the given Shape
NativeTensor(data, shape) == shape

\* the spatial dimensions of a Shape, as positions, and the rank of one among them
SpatialPositions(shape) == {i \in 1..Len(shape.types) : shape.types[i] = "spatial"}

SpatialRank(shape, i) == Cardinality({j \in SpatialPositions(shape) : j <= i})

\* StaggeredGrid.staggered_tensor(): the components padded to a common size and stacked
staggered_tensor(values) ==
    [values EXCEPT !.sizes = [i \in 1..Len(values.sizes) |-> Uniform(SeqMax(values.sizes[i]))]]

\* unstack_staggered_tensor(data): component c keeps the full size along the
\* c-th spatial dimension and drops the last slice along the other ones
unstack_staggered_tensor(data) ==
    LET k == Cardinality(SpatialPositions(data))
    IN [data EXCEPT !.sizes =
           [i \in 1..Len(data.sizes) |->
               IF i \in SpatialPositions(data) /\ k > 1
               THEN [c \in 1..k |-> IF c = SpatialRank(data, i)
                                    THEN data.sizes[i][1] ELSE data.sizes[i][1] - 1]
               ELSE data.sizes[i]]]

Grids == {"CenteredGrid", "StaggeredGrid"}

FieldTypes == Grids \cup {"PointCloud"}

Field(type, values) == [type |-> type, values |-> values]

NoField == Field("", EmptyShape)

NoArchive == [raised |-> "", written |-> FALSE, dim_names |-> <<>>, dim_types |-> <<>>,
              field_type |-> "", data |-> NoArray]

NotLoaded == [raised |-> "", read |-> FALSE, shape |-> EmptyShape, field |-> NoField]

\* sequences of distinct dimension names
NameLists == {q \in UNION {[1..n -> DimNames] : n \in 1..MaxRank} :
                 \A i, j \in 1..Len(q) : q[i] = q[j] => i = j}

\* values of centered grids and point clouds: every dimension of one size
UniformValues ==
    UNION {{Shape([i \in 1..Len(q) |-> Uniform(z[i])], q, [i \in 1..Len(q) |-> DimType(q[i])]) :
               z \in [1..Len(q) -> 1..MaxSize]} : q \in NameLists}

\* values of staggered grids: per spatial axis a cell count n; the component
\* of that axis has n + 1 faces along it and n along the other axes
StaggeredLayouts == {<<"x", "vector">>, <<"x", "y", "vector">>, <<"y", "x", "vector">>,
                     <<"batch", "x", "y", "vector">>}

StaggeredValues ==
    UNION {{LET types == [i \in 1..Len(q) |-> DimType(q[i])]
                k == Cardinality({i \in 1..Len(q) : types[i] = "spatial"})
                rank(i) == Cardinality({j \in 1..i : types[j] = "spatial"})
            IN Shape([i \in 1..Len(q) |->
                         IF types[i] = "spatial"
                         THEN IF k = 1 THEN Uniform(n[i] + 1)
                              ELSE [c \in 1..k |-> IF c = rank(i) THEN n[i] + 1 ELSE n[i]]
                         ELSE IF types[i] = "channel" THEN Uniform(k) ELSE Uniform(n[i])],
                     q, types) :
               n \in [1..Len(q) -> 1..MaxSize]} : q \in StaggeredLayouts}

Fields ==
    {Field("StaggeredGrid", v) : v \in StaggeredValues}
        \cup {Field(t, v) : t \in FieldTypes \ {"StaggeredGrid"}, v \in UniformValues}

\* write(field, file): the arrays np.savez_compressed stores under their keys
write(f) ==
    LET data == IF f.type = "StaggeredGrid"
                THEN numpy(staggered_tensor(f.values))
                ELSE numpy(f.values)
        dim_names == f.values.names
    IN IF f.type \in Grids
       THEN [raised |-> "", written |-> TRUE, dim_names |-> dim_names,
             dim_types |-> f.values.types, field_type |-> f.type, data |-> data]
       ELSE [NoArchive EXCEPT !.raised = "NotImplementedError"]

\* the Shape read builds for the stored array
StoredShape(stored) ==
    Shape([i \in 1..Len(stored.data.shape) |-> Uniform(stored.data.shape[i])],
          stored.dim_names, stored.dim_types)

\* variant: names and types are handed to Shape in the wrong order
ReadSwapsNamesAndTypes(stored) ==
    LET ftype == stored.field_type
        shape == Shape([i \in 1..Len(stored.data.shape) |-> Uniform(stored.data.shape[i])],
                       stored.dim_types, stored.dim_names)
        data == NativeTensor(stored.data, shape)
    IN IF ftype \in {"CenteredGrid", "StaggeredGrid"}
       THEN IF ftype = "CenteredGrid"
            THEN [raised |-> "", read |-> TRUE, shape |-> shape, field |-> Field("CenteredGrid", data)]
            ELSE [raised |-> "", read |-> TRUE, shape |-> shape,
                  field |-> Field("StaggeredGrid", unstack_staggered_tensor(data))]
       ELSE [NotLoaded EXCEPT !.raised = "NotImplementedError"]

\* read(file): the grid rebuilt from the stored arrays
read(stored) ==
    LET ftype == stored.field_type
        shape == StoredShape(stored)
        data == NativeTensor(stored.data, shape)
    IN IF ftype \in {"CenteredGrid", "StaggeredGrid"}
       THEN IF ftype = "CenteredGrid"
            THEN [raised |-> "", read |-> TRUE, shape |-> shape, field |-> Field("CenteredGrid", data)]
            ELSE [raised |-> "", read |-> TRUE, shape |-> shape,
                  field |-> Field("StaggeredGrid", unstack_staggered_tensor(data))]
       ELSE [NotLoaded EXCEPT !.raised = "NotImplementedError"]

\* a caller writes one field to a file
CallWrite ==
    /\ field = NoField
    /\ \E f \in Fields :
           /\ field' = f
           /\ archive' = write(f)
    /\ UNCHANGED <<scopeVars, precision, typeVars, binary, abstractVars, cg, serialized, loaded,
                   unstackVars>>

\* a caller reads the file that was written
CallRead ==
    /\ archive.written
    /\ ~loaded.read
    /\ loaded' = read(archive)
    /\ UNCHANGED <<scopeVars, precision, typeVars, binary, abstractVars, cg, serialized, field, archive,
                   unstackVars>>

(***************************************************************************)
(* Backend.unstack: the default built on the native array's indexing       *)
(***************************************************************************)
\* the entries of an index tuple: slice_idx, slice(slice_idx, slice_idx + 1), slice(None)
IntIndex(i) == [kind |-> "int", lo |-> i, hi |-> i + 1]

slice(lo, hi) == [kind |-> "slice", lo |-> lo, hi |-> hi]

SliceNone == [kind |-> "all", lo |-> 0, hi |-> 0]

\* tensor[index]: an integer drops its dimension, a slice keeps it; the
\* component is a view that records which indices of the input it covers
getitem(shape, index) ==
    LET picked(d) == IF index[d].kind = "all" THEN 0..(shape[d] - 1)
                     ELSE {i \in 0..(shape[d] - 1) : index[d].lo <= i /\ i < index[d].hi}
        kept[d \in 0..Len(shape)] ==
            IF d = 0 THEN <<>>
            ELSE IF index[d].kind = "int" THEN kept[d - 1]
            ELSE Append(kept[d - 1], Cardinality(picked(d)))
    IN [shape |-> kept[Len(shape)], picks |-> [d \in 1..Len(shape) |-> picked(d)]]

\* variant: a negative axis is not counted from the end
UnstackWithoutWrap(x, axis0, keepdims) ==
    LET axis == axis0
        n == Len(x)
        component(slice_idx) ==
            IF keepdims
            THEN getitem(x, [d \in 1..n |-> IF d - 1 = axis
                                            THEN slice(slice_idx, slice_idx + 1) ELSE SliceNone])
            ELSE getitem(x, [d \in 1..n |-> IF d - 1 = axis
                                            THEN IntIndex(slice_idx) ELSE SliceNone])
    IN IF axis >= n \/ axis < 0
       THEN [raised |-> "ValueError", components |-> <<>>]
       ELSE [raised |-> "",
             components |-> [k \in 1..x[axis + 1] |-> component(k - 1)]]

\* Backend.unstack(tensor, axis, keepdims)
unstack(x, axis0, keepdims) ==
    LET axis == IF axis0 < 0 THEN axis0 + Len(x) ELSE axis0
        n == Len(x)
        component(slice_idx) ==
            IF keepdims
            THEN getitem(x, [d \in 1..n |-> IF d - 1 = axis
                                            THEN slice(slice_idx, slice_idx + 1) ELSE SliceNone])
            ELSE getitem(x, [d \in 1..n |-> IF d - 1 = axis
                                            THEN IntIndex(slice_idx) ELSE SliceNone])
    IN IF axis >= n \/ axis < 0
       THEN [raised |-> "ValueError", components |-> <<>>]
       ELSE [raised |-> "",
             components |-> [k \in 1..x[axis + 1] |-> component(k - 1)]]

\* the shapes of the tensors handed to unstack, scalars and empty axes included
TensorShapes == UNION {[1..n -> 0..MaxSize] : n \in 0..MaxRank}

\* the axis arguments tried: every axis of the largest tensor, counted from
\* either end, and two values beyond on each side
Axes == (-(MaxRank + 2))..(MaxRank + 1)

NotUnstacked == [called |-> FALSE, tensor |-> <<>>, axis |-> 0, keepdims |-> FALSE,
                 raised |-> "", components |-> <<>>]

\* a caller unstacks the tensor
CallUnstack ==
    /\ ~unstacked.called
    /\ \E axis \in Axes, keepdims \in BOOLEAN :
           LET r == unstack(tensor, axis, keepdims)
           IN unstacked' = [called |-> TRUE, tensor |-> tensor, axis |-> axis,
                            keepdims |-> keepdims, raised |-> r.raised,
                            components |-> r.components]
    /\ UNCHANGED <<scopeVars, precision, typeVars, binary, abstractVars, cg, serialized, ioVars,
                   tensor>>

(***************************************************************************)
(* Initial state and specifications                                        *)
(***************************************************************************)
ScopeInit ==
    /\ _DEFAULT = <<BUILTIN>>
    /\ frames = [t \in Tasks |-> <<>>]
    /\ exc = [t \in Tasks |-> FALSE]
    /\ exited = NoExit

TypesInit ==
    /\ precision \in Precisions
    /\ dtypes = <<>>
    /\ result = NotCalled

AbstractInit ==
    /\ backend = NoBackend
    /\ outcome = NoOutcome

\* callers do not coordinate unless they choose to
CallersInit == serialized = FALSE

IoInit ==
    /\ field = NoField
    /\ archive = NoArchive
    /\ loaded = NotLoaded

UnstackInit ==
    /\ tensor = <<>>
    /\ unstacked = NotUnstacked

Init ==
    /\ ScopeInit /\ TypesInit /\ binary = NotInvoked /\ AbstractInit /\ cg = CGIdle
    /\ CallersInit
    /\ IoInit
    /\ UnstackInit

\* unstack is a function of its arguments: every tensor shape within the bounds
InitUnstack ==
    /\ ScopeInit /\ TypesInit /\ binary = NotInvoked /\ AbstractInit /\ cg = CGIdle
    /\ CallersInit
    /\ IoInit
    /\ tensor \in TensorShapes
    /\ unstacked = NotUnstacked

\* one task, properly nested scopes (the with statement pairs enter and exit)
NextNested ==
    \/ \E b \in BackendNames : __enter__(NestedTask, b)
    \/ __exit__(NestedTask)
    \/ Raise(NestedTask)
    \/ Catch(NestedTask)

SpecNested == Init /\ [][NextNested]_vars

\* the callers either leave the tasks uncoordinated or serialize their scopes
InitTasks ==
    /\ ScopeInit
    /\ precision = 32 /\ dtypes = <<>> /\ result = NotCalled
    /\ binary = NotInvoked /\ AbstractInit /\ cg = CGIdle
    /\ serialized \in BOOLEAN
    /\ IoInit
    /\ UnstackInit

\* several tasks, each entering and exiting its own scopes, their steps interleaving
NextTasks ==
    \E t \in Tasks :
        \/ TaskEnter(t)
        \/ __exit__(t)
        \/ Raise(t)
        \/ Catch(t)

SpecTasks == InitTasks /\ [][NextTasks]_vars

\* one field written to a file and read back
NextIo == CallWrite \/ CallRead

SpecIo == Init /\ [][NextIo]_vars

\* unstack applied to every tensor shape, axis and keepdims within the bounds
NextUnstack == CallUnstack

SpecUnstack == InitUnstack /\ [][NextUnstack]_vars

\* dtype promotion applied to every operand list within the bounds
NextTypes == CallCombineTypes

SpecTypes == Init /\ [][NextTypes]_vars

\* the default elementwise methods applied to every operand pair within the bounds
NextBinary == CallBinary

SpecBinary == Init /\ [][NextBinary]_vars

\* backends are constructed and their abstract operations called
NextAbstract == Construct \/ CallAbstract

SpecAbstract == Init /\ [][NextAbstract]_vars

\* one conjugate_gradient call run to its return
NextSolve == cg_call \/ cg_iterate \/ cg_return_not_converged \/ cg_return_converged

SpecSolve == Init /\ [][NextSolve]_vars

(***************************************************************************)
(* Claims about the scoped stack                                           *)
(***************************************************************************)
\* C1: after every __exit__ the stack is as deep as it was right before the
\* matching __enter__, whether the body returned or raised, at every nesting
\* level; once all scopes of the task are left the depth is the initial one.
C1_DepthRestored ==
    /\ exited.level > 0 => exited.post = exited.pre
    /\ frames[NestedTask] = <<>> => Len(_DEFAULT) = 1

\* an innermost scope at the deepest level was left by an exception
C1_Witness ==
    /\ exited.level = MaxNest
    /\ exited.raised
    /\ exited.post = exited.pre

\* C2: inside a scope the top of the stack is the backend of the innermost
\* scope not yet exited; after the outermost scope exits it is the backend
\* that was on top at startup.
C2_InnermostWins ==
    IF frames[NestedTask] # <<>>
    THEN _DEFAULT # <<>> /\ Top(_DEFAULT) = Top(frames[NestedTask]).backend
    ELSE _DEFAULT # <<>> /\ Top(_DEFAULT) = BUILTIN

\* an inner scope has exited and the enclosing scope's different backend is on top again
C2_Witness ==
    /\ exited.level = 2
    /\ Len(frames[NestedTask]) = 1
    /\ Top(_DEFAULT) = "TF"
    /\ Top(_DEFAULT) = Top(frames[NestedTask]).backend
    /\ exited.post = 2

\* the task is inside a scope of its own
Inside(t) == frames[t] # <<>>

\* a task inside its own scope finds a backend other than that scope's on top
ForeignOnTop(t) == Inside(t) /\ Top(_DEFAULT) # Top(frames[t]).backend

\* the entry the task's innermost open scope pushed is no longer where it was pushed
EntryRemoved(t) ==
    /\ Inside(t)
    /\ \/ Len(_DEFAULT) <= Top(frames[t]).depth
       \/ _DEFAULT[Top(frames[t]).depth + 1] # Top(frames[t]).backend

\* C11: with the enter..exit spans of the tasks serialized, no task inside
\* its own scope finds another backend on top, no open scope's entry has been
\* removed, and every exit leaves the depth its matching enter found; without
\* serialization a state breaking all three is reachable (C11_Witness).
C11_SerializedIsSafe ==
    serialized =>
        /\ \A t \in Tasks : ~ForeignOnTop(t) /\ ~EntryRemoved(t)
        /\ exited.level > 0 => exited.post = exited.pre

\* uncoordinated tasks: main entered, worker entered, main exited; main's exit
\* removed worker's entry, and worker, inside its scope, finds main's backend on top
C11_Witness ==
    /\ ~serialized
    /\ exited.task = "main" /\ exited.pre = 1 /\ exited.post = 2
    /\ frames["main"] = <<>>
    /\ frames["worker"] = <<[backend |-> TaskBackend("worker"), depth |-> 2]>>
    /\ _DEFAULT = <<BUILTIN, TaskBackend("main")>>
    /\ ForeignOnTop("worker")
    /\ EntryRemoved("worker")

\* C13: whatever the tasks' entries and exits, nested or interleaved, the
\* entry present at startup stays at the bottom of the stack, the stack is
\* never empty, and once every entered scope has exited the stack is exactly
\* what it was at startup.
C13_InitialEntriesKept ==
    /\ _DEFAULT # <<>>
    /\ _DEFAULT[1] = BUILTIN
    /\ Len(_DEFAULT) = 1 + Len(frames["main"]) + Len(frames["worker"])
    /\ (\A t \in Tasks : ~Inside(t)) => _DEFAULT = <<BUILTIN>>

\* two uncoordinated tasks removed each other's entries, all scopes have
\* exited, and the stack is back to its startup contents
C13_Witness ==
    /\ ~serialized
    /\ exited.level > 0
    /\ exited.post # exited.pre
    /\ \A t \in Tasks : ~Inside(t)
    /\ _DEFAULT = <<BUILTIN>>

(***************************************************************************)
(* Claims about combine_types                                              *)
(***************************************************************************)
Called == result # NotCalled

HasKind(ds, kind) == \E i \in 1..Len(ds) : ds[i].kind = kind

Orderings(n) == {p \in [1..n -> 1..n] : \A i, j \in 1..n : p[i] = p[j] => i = j}

Reorder(ds, p) == [i \in 1..Len(ds) |-> ds[p[i]]]

\* every reordering of the operands gives the result of the call
Commutative ==
    \A p \in Orderings(Len(dtypes)) : combine_types(Reorder(dtypes, p)) = result

\* combining the first two operands, then the third, gives the result of the call
Associative ==
    Len(dtypes) = 3 =>
        combine_types(<<combine_types(<<dtypes[1], dtypes[2]>>).value, dtypes[3]>>) = result

\* C3: for a non-empty list of bool/int/float/complex dtypes, every
\* permutation of the list gives the same result, and
\* combine_types(combine_types(a, b), c) = combine_types(a, b, c).
C3_CommutativeAssociative ==
    (Called /\ dtypes # <<>> /\ AllKindsIn(dtypes, NumericKinds))
        => (Commutative /\ Associative)

IntWidths(ds) == {ds[i].bits : i \in {j \in 1..Len(ds) : ds[j].kind = "int"}}

WidestInt(ds) == CHOOSE w \in IntWidths(ds) : \A v \in IntWidths(ds) : v <= w

\* C4: operands all bool or int with at least one int give the int dtype of
\* the largest integer operand width, never a bool; all-bool operands give bool.
C4_WidestInteger ==
    (Called /\ dtypes # <<>> /\ AllKindsIn(dtypes, {"bool", "int"}))
        => IF HasKind(dtypes, "int")
           THEN result = Return(DType("int", WidestInt(dtypes)))
           ELSE result.raised = "" /\ result.value.kind = "bool"

\* C5: bool/int/float operands with at least one float give
\* DType(float, precision); bool/int/float/complex operands with at least one
\* complex give DType(complex, max(64, precision)); no operand width enters.
C5_CanonicalFloatComplex ==
    (Called /\ AllKindsIn(dtypes, NumericKinds))
        => /\ (HasKind(dtypes, "float") /\ ~HasKind(dtypes, "complex"))
                  => result = Return(DType("float", precision))
           /\ HasKind(dtypes, "complex")
                  => result = Return(DType("complex", IF precision > 64 THEN precision ELSE 64))

\* a float operand wider than the precision setting was promoted to the setting's width
C5_Witness ==
    /\ precision = 32
    /\ dtypes = <<DType("int", 16), DType("float", 64)>>
    /\ result = Return(DType("float", 32))

\* C6: an operand of a kind outside bool/int/float/complex, at any position,
\* makes combine_types raise its type-mismatch error (ValueError) and return
\* no dtype.
C6_UnknownKindRaises ==
    (Called /\ ~AllKindsIn(dtypes, NumericKinds))
        => result = RaiseError("ValueError")

\* the offending operand sits between two numeric ones
C6_Witness ==
    /\ dtypes = <<DType("int", 32), DType("object", 8), DType("complex", 64)>>
    /\ result.raised = "ValueError"
    /\ result.value = NoValue

(***************************************************************************)
(* Claims about the default elementwise methods                            *)
(***************************************************************************)
\* C7: whenever add, sub, mul, div, pow or mod applies the engine's operator,
\* both operands have been through auto_cast: they are the two inputs, in
\* order, and both have the dtype combine_types gives for the input dtypes.
C7_NativeOperandsAutoCast ==
    binary.out.native # NoNative =>
        LET combined == combine_types(<<dtype(binary.a), dtype(binary.b)>>)
            applied == binary.out.native
        IN /\ combined.raised = ""
           /\ dtype(applied.lhs) = combined.value
           /\ dtype(applied.rhs) = combined.value
           /\ applied.lhs.data = binary.a.data
           /\ applied.rhs.data = binary.b.data

\* pow on an int32 and a float64 under 32-bit precision reached the engine as two float32
C7_Witness ==
    /\ precision = 32
    /\ binary.method = "pow"
    /\ dtype(binary.a) = DType("int", 32)
    /\ dtype(binary.b) = DType("float", 64)
    /\ binary.out.native.op = "**"
    /\ dtype(binary.out.native.lhs) = DType("float", 32)
    /\ dtype(binary.out.native.rhs) = DType("float", 32)

(***************************************************************************)
(* Claims about the abstract operations                                    *)
(***************************************************************************)
Range(seq) == {seq[i] : i \in 1..Len(seq)}

Unimplemented == outcome.op # "" /\ outcome.op \notin backend.overrides

\* C8 as stated: every abstract operation the backend does not implement,
\* resample and conjugate_gradient included, raises the not-supported error
\* (NotImplementedError) when called and returns no value.
C8_EveryUnimplementedRaises ==
    Unimplemented => outcome.raised = "NotImplementedError" /\ outcome.value = ""

\* C8 amended: a backend overriding nothing can be constructed; every
\* unimplemented abstract operation other than resample raises
\* NotImplementedError when called and returns no value; an unimplemented
\* resample raises nothing and returns the NotImplemented value.
C8_UnimplementedRaisesExceptResample ==
    Unimplemented =>
        IF outcome.op = "resample"
        THEN outcome.raised = "" /\ outcome.value = "NotImplemented"
        ELSE outcome.raised = "NotImplementedError" /\ outcome.value = ""

\* a backend that overrides nothing was constructed and its pad was called
C8_Witness ==
    /\ backend # NoBackend
    /\ backend.overrides = {}
    /\ outcome.op = "pad"
    /\ outcome.raised = "NotImplementedError"
    /\ outcome.value = ""

\* C9: the error an unimplemented abstract operation raises carries the name
\* of the operation and the name of the backend.
C9_ErrorNamesOperationAndBackend ==
    (Unimplemented /\ outcome.raised # "") =>
        /\ outcome.op \in Range(outcome.args)
        /\ __str__(backend) \in Range(outcome.args)

Selected(n, a) == IF a < 0 THEN n + a ELSE a

\* C14: for a tensor of rank n, unstack raises ValueError exactly when axis is
\* outside [-n, n-1]; otherwise it returns shape[axis] components in
\* increasing index order, axis -k selecting the same axis as n-k; each
\* component has rank n-1 without keepdims and rank n with size 1 along the
\* axis with keepdims; the input tensor is left unchanged.
C14_Unstack ==
    unstacked.called =>
        LET n == Len(unstacked.tensor)
            a == Selected(n, unstacked.axis)
            comps == unstacked.components
        IN /\ tensor = unstacked.tensor
           /\ (unstacked.raised = "ValueError") <=> (unstacked.axis < -n \/ unstacked.axis > n - 1)
           /\ unstacked.raised \in {"", "ValueError"}
           /\ unstacked.raised = "" =>
                  /\ Len(comps) = unstacked.tensor[a + 1]
                  /\ \A k \in 1..Len(comps) :
                         /\ comps[k].picks[a + 1] = {k - 1}
                         /\ \A d \in (1..n) \ {a + 1} :
                                comps[k].picks[d] = 0..(unstacked.tensor[d] - 1)
                         /\ IF unstacked.keepdims
                            THEN comps[k].shape = [unstacked.tensor EXCEPT ![a + 1] = 1]
                            ELSE /\ Len(comps[k].shape) = n - 1
                                 /\ \A d \in 1..(n - 1) :
                                        comps[k].shape[d] =
                                            unstacked.tensor[IF d < a + 1 THEN d ELSE d + 1]

\* a rank-3 tensor unstacked along its middle axis, named from the end, into
\* two components of rank 2
C14_Witness ==
    /\ unstacked.called
    /\ unstacked.tensor = <<1, 2, 2>>
    /\ unstacked.axis = -2
    /\ ~unstacked.keepdims
    /\ unstacked.raised = ""
    /\ Len(unstacked.components) = 2
    /\ unstacked.components[2].shape = <<1, 2>>
    /\ unstacked.components[2].picks = <<{0}, {1}, {0, 1}>>

====
